---------------------------- MODULE Spec2Model ----------------------------
(***************************************************************************)
(* The dynamic AABB tree of src/src/collision/b2_dynamic_tree.{hpp,cpp}:   *)
(* an index-based node pool with a free list, SAH insertion, single-step   *)
(* rotations, hysteresis moves, a bottom-up rebuild and stack-based walks. *)
(*                                                                         *)
(* Coordinates are integers in units of one AABB extension (0.1 world      *)
(* units); the rectangle and vector primitives (Rectf, Vector) live        *)
(* outside src/ and are modelled from the specification.                   *)
(***************************************************************************)
EXTENDS Integers, Sequences, FiniteSets, TLC

VARIABLES
    m_nodes,          \* the pool: [0 .. m_nodeCapacity-1 -> b2TreeNode]
    m_root,           \* root handle or b2_nullNode
    m_nodeCount,      \* number of allocated slots
    m_nodeCapacity,   \* pool size
    m_freeList,       \* head of the free chain or b2_nullNode
    m_insertionCount, \* number of InsertLeaf calls
    proxies,          \* the client's handles: handle -> user data given at creation
    last              \* the last public call: its name, return value, rotations,
                  \* the b2Assert statements it evaluated and those that failed,
                  \* for MoveProxy whether the stored box held the new one,
                  \* for MoveProxy and ClearMoved the handle (id), for Query
                  \* and RayCast the argument and the callback invocations

vars == <<m_nodes, m_root, m_nodeCount, m_nodeCapacity, m_freeList,
          m_insertionCount, proxies, last>>

---------------------------------------------------------------------------
(* Bounds of the model *)

\* From the constructed tree, CreateProxy and a re-inserting MoveProxy are
\* taken while fewer than this many InsertLeaf calls have been made.
MaxInsertions == 3

\* From the seeded tree, this many further InsertLeaf calls are made.
DeepInsertions == 1

\* ShiftOrigin is taken while every stored coordinate stays within this.
MaxCoord == 8

---------------------------------------------------------------------------
(* Program constants *)

b2_nullNode == -1

InitialCapacity == 16

\* The fattening margin; one model unit.
b2_aabbExtension == 1

\* The predicted-motion factor of MoveProxy.
b2_aabbMultiplier == 2

NullUserData == 0

---------------------------------------------------------------------------
(* Rectf and Vector *)

Max(a, b) == IF a > b THEN a ELSE b

Min(a, b) == IF a < b THEN a ELSE b

Abs(a) == IF a < 0 THEN -a ELSE a

Rectf(l, t, r, b) == [left |-> l, top |-> t, right |-> r, bottom |-> b]

Vector(x, y) == [x |-> x, y |-> y]

grown(a, border) ==
    Rectf(a.left - border, a.top - border, a.right + border, a.bottom + border)

contains(a, other) ==
    /\ a.left <= other.left
    /\ a.top <= other.top
    /\ other.right <= a.right
    /\ other.bottom <= a.bottom

overlaps(a, other) ==
    ~ \/ a.right < other.left
      \/ other.right < a.left
      \/ a.bottom < other.top
      \/ other.bottom < a.top

combine(a, b) ==
    Rectf(Min(a.left, b.left), Min(a.top, b.top),
          Max(a.right, b.right), Max(a.bottom, b.bottom))

get_perimeter(a) == 2 * ((a.right - a.left) + (a.bottom - a.top))

\* Coordinates are floats: a float carries FloatDigits significant binary
\* digits, and the result of an addition is rounded to the nearest float,
\* to the even one of two equally near.  Within +-2^FloatDigits every whole
\* number is a float.
FloatDigits == 24

\* The spacing of the floats around x: the least power of two q, from q
\* up, with |x| < q * 2^FloatDigits.
RECURSIVE Spacing(_, _)
Spacing(x, q) == IF Abs(x) < q * 2 ^ FloatDigits THEN q ELSE Spacing(x, 2 * q)

Float(x) ==
    LET Nearest(q) ==
          LET below == (x \div q) * q
          IN  IF 2 * (x - below) < q THEN below
              ELSE IF 2 * (x - below) > q THEN below + q
              ELSE IF (x \div q) % 2 = 0 THEN below ELSE below + q
    IN  Nearest(Spacing(x, 1))

move(a, v) ==
    Rectf(Float(a.left + v.x), Float(a.top + v.y),
          Float(a.right + v.x), Float(a.bottom + v.y))

ZeroRect == Rectf(0, 0, 0, 0)

---------------------------------------------------------------------------
(* b2TreeNode.  parent and next share storage: the field parent holds the  *)
(* next-free link while the slot is on the free list.                      *)

IsLeaf(node) == node.child1 = b2_nullNode

\* A slot as the constructor's memset and free-list loop leave it.
ZeroedNode(next) ==
    [aabb |-> ZeroRect, userData |-> NullUserData, parent |-> next,
     child1 |-> 0, child2 |-> 0, height |-> -1, moved |-> FALSE]

\* The tree as one value, for the operators below.  rot counts the rotations
\* Balance performs during one call, checked holds the source lines of the
\* b2Assert statements the call evaluates and failed those whose condition
\* was false; they are no fields of the class.
Tree ==
    [nodes |-> m_nodes, root |-> m_root, count |-> m_nodeCount,
     cap |-> m_nodeCapacity, free |-> m_freeList, ins |-> m_insertionCount,
     rot |-> 0, checked |-> {}, failed |-> {}]

\* b2DynamicTree::b2DynamicTree
NewTree ==
    [nodes |-> [i \in 0 .. InitialCapacity - 1 |->
                  ZeroedNode(IF i = InitialCapacity - 1 THEN b2_nullNode ELSE i + 1)],
     root |-> b2_nullNode, count |-> 0, cap |-> InitialCapacity,
     free |-> 0, ins |-> 0, rot |-> 0, checked |-> {}, failed |-> {}]

\* b2Assert statements: checks is a set of pairs <<source line, condition>>.
\* A failed assertion aborts a debug build and is compiled out of a release
\* build; the tree goes on as the release build does, and the failure is
\* recorded.
b2Assert(t, checks) ==
    [t EXCEPT !.checked = @ \cup {c[1] : c \in checks},
              !.failed = @ \cup {c[1] : c \in {d \in checks : ~d[2]}}]

---------------------------------------------------------------------------
(* Node pool *)

\* The pool after the doubling of AllocateNode.  The new array comes from
\* b2Alloc: the first count records are copied, the rest hold whatever the
\* allocator returned (garbage), of which only next and height are set.
GrowPoolBad(t, garbage) ==
    LET cap2 == t.cap * 2 IN
    [t EXCEPT
       !.cap = cap2,
       !.nodes = [i \in 0 .. cap2 - 1 |->
                    IF i < t.count - 1 THEN t.nodes[i]
                    ELSE [garbage EXCEPT
                            !.parent = IF i = cap2 - 1 THEN b2_nullNode ELSE i + 1,
                            !.height = -1]],
       !.free = t.count]

GrowPool(t, garbage) ==
    LET cap2 == t.cap * 2 IN
    [t EXCEPT
       !.cap = cap2,
       !.nodes = [i \in 0 .. cap2 - 1 |->
                    IF i < t.count THEN t.nodes[i]
                    ELSE [garbage EXCEPT
                            !.parent = IF i = cap2 - 1 THEN b2_nullNode ELSE i + 1,
                            !.height = -1]],
       !.free = t.count]

\* Returns the tree and the handle (id) peeled off the free list.
AllocateNode(t, garbage) ==
    LET Peel(g) ==
          [t |-> [g EXCEPT
                    !.free = g.nodes[g.free].parent,
                    !.nodes[g.free] = [@ EXCEPT !.parent = b2_nullNode,
                                                !.child1 = b2_nullNode,
                                                !.child2 = b2_nullNode,
                                                !.height = 0,
                                                !.userData = NullUserData,
                                                !.moved = FALSE],
                    !.count = @ + 1],
           id |-> g.free]
    IN  Peel(IF t.free = b2_nullNode
             THEN GrowPool(b2Assert(t, {<<62, t.count = t.cap>>}), garbage)
             ELSE t)

FreeNodeKeepHeight(t, nodeId) ==
    [t EXCEPT !.nodes[nodeId].parent = t.free,
              !.free = nodeId,
              !.count = @ - 1]

FreeNode(t, nodeId) ==
    [b2Assert(t, {<<99, 0 <= nodeId /\ nodeId < t.cap>>, <<100, 0 < t.count>>})
       EXCEPT !.nodes[nodeId].parent = t.free,
              !.nodes[nodeId].height = -1,
              !.free = nodeId,
              !.count = @ - 1]

---------------------------------------------------------------------------
(* Rebalancer *)

\* The child pointer of A's old parent (parent) is redirected to iX.
RelinkParent(nodes, parent, iA, iX) ==
    IF parent = b2_nullNode THEN nodes
    ELSE IF nodes[parent].child1 = iA
         THEN [nodes EXCEPT ![parent].child1 = iX]
         ELSE [nodes EXCEPT ![parent].child2 = iX]

\* Rotate C up: iU is the grandchild that stays with C, iD the one handed to
\* A.  The boxes and heights of B, iU and iD are not written, so they are
\* read from the nodes as they were.
RotateCUp(t, iA, iB, iC, iU, iD) ==
    LET nodes == t.nodes
        parent == nodes[iA].parent
        aabbA == combine(nodes[iB].aabb, nodes[iD].aabb)
        heightA == 1 + Max(nodes[iB].height, nodes[iD].height)
    IN  [t |-> [t EXCEPT
                  !.nodes = [RelinkParent(nodes, parent, iA, iC) EXCEPT
                               ![iC].child1 = iA,
                               ![iC].parent = parent,
                               ![iA].parent = iC,
                               ![iC].child2 = iU,
                               ![iA].child2 = iD,
                               ![iD].parent = iA,
                               ![iA].aabb = aabbA,
                               ![iC].aabb = combine(aabbA, nodes[iU].aabb),
                               ![iA].height = heightA,
                               ![iC].height = 1 + Max(heightA, nodes[iU].height)],
                  !.root = IF parent = b2_nullNode THEN iC ELSE @,
                  !.rot = @ + 1],
         id |-> iC]

\* Rotate B up: iU is the grandchild that stays with B, iD the one handed to A.
RotateBUp(t, iA, iB, iC, iU, iD) ==
    LET nodes == t.nodes
        parent == nodes[iA].parent
        aabbA == combine(nodes[iC].aabb, nodes[iD].aabb)
        heightA == 1 + Max(nodes[iC].height, nodes[iD].height)
    IN  [t |-> [t EXCEPT
                  !.nodes = [RelinkParent(nodes, parent, iA, iB) EXCEPT
                               ![iB].child1 = iA,
                               ![iB].parent = parent,
                               ![iA].parent = iB,
                               ![iB].child2 = iU,
                               ![iA].child1 = iD,
                               ![iD].parent = iA,
                               ![iA].aabb = aabbA,
                               ![iB].aabb = combine(aabbA, nodes[iU].aabb),
                               ![iA].height = heightA,
                               ![iB].height = 1 + Max(heightA, nodes[iU].height)],
                  !.root = IF parent = b2_nullNode THEN iB ELSE @,
                  !.rot = @ + 1],
         id |-> iB]

BalanceNever(t, iA) == [t |-> t, id |-> iA]

\* Mutant of BalanceAsserts: the check that A's old parent has A as child2
\* is made whichever child of its parent A is.
BalanceAssertsEitherChild(t, iA) ==
    LET A == t.nodes[iA]
        InPool(i) == 0 <= i /\ i < t.cap
        OfChildren == {<<406, InPool(A.child1)>>, <<407, InPool(A.child2)>>}
        OfParent(line) ==
          IF A.parent # b2_nullNode
          THEN {<<line, t.nodes[A.parent].child2 = iA>>}
          ELSE {}
        OfRotation(up, line1, line2, line3) ==
          {<<line1, InPool(up.child1)>>, <<line2, InPool(up.child2)>>}
            \cup OfParent(line3)
        Rotating(balance) ==
          IF balance > 1 THEN OfRotation(t.nodes[A.child2], 421, 422, 438)
          ELSE IF balance < -1 THEN OfRotation(t.nodes[A.child1], 481, 482, 498)
          ELSE {}
    IN  {<<396, iA # b2_nullNode>>}
          \cup (IF IsLeaf(A) \/ A.height < 2 THEN {}
                ELSE OfChildren
                       \cup Rotating(t.nodes[A.child2].height
                                      - t.nodes[A.child1].height))

\* The b2Assert statements Balance evaluates on t at iA, each with its
\* condition: the index checks of the children and, where it rotates, of the
\* grandchildren, and the check that A's old parent, when its child1 is not
\* A, has A as child2.
BalanceAsserts(t, iA) ==
    LET A == t.nodes[iA]
        InPool(i) == 0 <= i /\ i < t.cap
        OfChildren == {<<406, InPool(A.child1)>>, <<407, InPool(A.child2)>>}
        OfParent(line) ==
          IF A.parent # b2_nullNode /\ t.nodes[A.parent].child1 # iA
          THEN {<<line, t.nodes[A.parent].child2 = iA>>}
          ELSE {}
        OfRotation(up, line1, line2, line3) ==
          {<<line1, InPool(up.child1)>>, <<line2, InPool(up.child2)>>}
            \cup OfParent(line3)
        Rotating(balance) ==
          IF balance > 1 THEN OfRotation(t.nodes[A.child2], 421, 422, 438)
          ELSE IF balance < -1 THEN OfRotation(t.nodes[A.child1], 481, 482, 498)
          ELSE {}
    IN  {<<396, iA # b2_nullNode>>}
          \cup (IF IsLeaf(A) \/ A.height < 2 THEN {}
                ELSE OfChildren
                       \cup Rotating(t.nodes[A.child2].height
                                      - t.nodes[A.child1].height))

\* Balance with its b2Assert statements left out.
BalanceUnchecked(t, iA) ==
    LET A == t.nodes[iA] IN
    IF IsLeaf(A) \/ A.height < 2 THEN [t |-> t, id |-> iA]
    ELSE
      LET iB == A.child1
          iC == A.child2
          B == t.nodes[iB]
          C == t.nodes[iC]
          balance == C.height - B.height
      IN  IF balance > 1
          THEN LET iF == C.child1
                   iG == C.child2
               IN  IF t.nodes[iF].height > t.nodes[iG].height
                   THEN RotateCUp(t, iA, iB, iC, iF, iG)
                   ELSE RotateCUp(t, iA, iB, iC, iG, iF)
          ELSE IF balance < -1
          THEN LET iD == B.child1
                   iE == B.child2
               IN  IF t.nodes[iD].height > t.nodes[iE].height
                   THEN RotateBUp(t, iA, iB, iC, iD, iE)
                   ELSE RotateBUp(t, iA, iB, iC, iE, iD)
          ELSE [t |-> t, id |-> iA]

\* Returns the tree and the index (id) of the subtree's new root.
Balance(t, iA) == BalanceUnchecked(b2Assert(t, BalanceAsserts(t, iA)), iA)

---------------------------------------------------------------------------
(* Insertion and removal *)

\* The height and box an ancestor gets from its children on the walk up.
RefitNoBox(nodes, index) ==
    LET child1 == nodes[index].child1
        child2 == nodes[index].child2
    IN  [nodes EXCEPT
           ![index].height = 1 + Max(nodes[child1].height, nodes[child2].height)]

Refit(nodes, index) ==
    LET child1 == nodes[index].child1
        child2 == nodes[index].child2
    IN  [nodes EXCEPT
           ![index].height = 1 + Max(nodes[child1].height, nodes[child2].height),
           ![index].aabb = combine(nodes[child1].aabb, nodes[child2].aabb)]

\* The loop of RemoveLeaf that walks from index to the root.
RECURSIVE WalkUp(_, _)
WalkUp(t, index) ==
    LET Step(b) == WalkUp([b.t EXCEPT !.nodes = Refit(@, b.id)],
                          b.t.nodes[b.id].parent)
    IN  IF index = b2_nullNode THEN t ELSE Step(Balance(t, index))

\* The loop of InsertLeaf that walks from index to the root: that of
\* WalkUp, with the b2Assert statements on the children it reads.
RECURSIVE WalkUpInserted(_, _)
WalkUpInserted(t, index) ==
    LET Step(b) ==
          WalkUpInserted(
            [b2Assert(b.t, {<<321, b.t.nodes[b.id].child1 # b2_nullNode>>,
                            <<322, b.t.nodes[b.id].child2 # b2_nullNode>>})
               EXCEPT !.nodes = Refit(@, b.id)],
            b.t.nodes[b.id].parent)
    IN  IF index = b2_nullNode THEN t ELSE Step(Balance(t, index))

\* Cost of descending into child, before the inheritance cost is added.
DescendCost(t, leafAABB, child) ==
    LET aabb == combine(leafAABB, t.nodes[child].aabb) IN
    IF IsLeaf(t.nodes[child])
    THEN get_perimeter(aabb)
    ELSE get_perimeter(aabb) - get_perimeter(t.nodes[child].aabb)

\* Mutant of NextCandidate: equal costs lead into child1.
NextCandidateTieFirst(t, leafAABB, index) ==
    LET child1 == t.nodes[index].child1
        child2 == t.nodes[index].child2
        area == get_perimeter(t.nodes[index].aabb)
        combinedArea == get_perimeter(combine(t.nodes[index].aabb, leafAABB))
        cost == 2 * combinedArea
        inheritanceCost == 2 * (combinedArea - area)
        cost1 == DescendCost(t, leafAABB, child1) + inheritanceCost
        cost2 == DescendCost(t, leafAABB, child2) + inheritanceCost
    IN  IF cost < cost1 /\ cost < cost2 THEN index
        ELSE IF cost1 <= cost2 THEN child1 ELSE child2

\* One turn of the loop of the descent at the internal node index: index
\* itself where the loop breaks, else the child it descends into.
NextCandidate(t, leafAABB, index) ==
    LET child1 == t.nodes[index].child1
        child2 == t.nodes[index].child2
        area == get_perimeter(t.nodes[index].aabb)
        combinedArea == get_perimeter(combine(t.nodes[index].aabb, leafAABB))
        cost == 2 * combinedArea
        inheritanceCost == 2 * (combinedArea - area)
        cost1 == DescendCost(t, leafAABB, child1) + inheritanceCost
        cost2 == DescendCost(t, leafAABB, child2) + inheritanceCost
    IN  IF cost < cost1 /\ cost < cost2 THEN index
        ELSE IF cost1 < cost2 THEN child1 ELSE child2

\* The descent of InsertLeaf from index to the chosen sibling.
RECURSIVE FindSibling(_, _, _)
FindSibling(t, leafAABB, index) ==
    LET Go(next) == IF next = index THEN index ELSE FindSibling(t, leafAABB, next)
    IN  IF IsLeaf(t.nodes[index]) THEN index
        ELSE Go(NextCandidate(t, leafAABB, index))

\* The new parent spliced in above sibling, with leaf as its second child.
Splice(t, leaf, sibling, garbage) ==
    LET oldParent == t.nodes[sibling].parent
        Link(a) ==
          [a.t EXCEPT
             !.nodes = [(IF oldParent = b2_nullNode THEN a.t.nodes
                         ELSE IF a.t.nodes[oldParent].child1 = sibling
                         THEN [a.t.nodes EXCEPT ![oldParent].child1 = a.id]
                         ELSE [a.t.nodes EXCEPT ![oldParent].child2 = a.id])
                        EXCEPT
                          ![a.id].parent = oldParent,
                          ![a.id].userData = NullUserData,
                          ![a.id].aabb = combine(a.t.nodes[leaf].aabb,
                                                 a.t.nodes[sibling].aabb),
                          ![a.id].height = a.t.nodes[sibling].height + 1,
                          ![a.id].child1 = sibling,
                          ![a.id].child2 = leaf,
                          ![sibling].parent = a.id,
                          ![leaf].parent = a.id],
             !.root = IF oldParent # b2_nullNode THEN @ ELSE a.id]
    IN  Link(AllocateNode(t, garbage))

InsertLeaf(t, leaf, garbage) ==
    LET Descend(t0) ==
          LET Walk(t1) == WalkUpInserted(t1, t1.nodes[leaf].parent)
          IN  Walk(Splice(t0, leaf,
                          FindSibling(t0, t0.nodes[leaf].aabb, t0.root), garbage))
    IN  IF t.root = b2_nullNode
        THEN [t EXCEPT !.ins = @ + 1, !.root = leaf,
                       !.nodes[leaf].parent = b2_nullNode]
        ELSE Descend([t EXCEPT !.ins = @ + 1])

RemoveLeaf(t, leaf) ==
    IF leaf = t.root THEN [t EXCEPT !.root = b2_nullNode]
    ELSE LET parent == t.nodes[leaf].parent
             grandParent == t.nodes[parent].parent
             sibling == IF t.nodes[parent].child1 = leaf
                        THEN t.nodes[parent].child2
                        ELSE t.nodes[parent].child1
         IN  IF grandParent # b2_nullNode
             THEN LET n1 == IF t.nodes[grandParent].child1 = parent
                            THEN [t.nodes EXCEPT ![grandParent].child1 = sibling]
                            ELSE [t.nodes EXCEPT ![grandParent].child2 = sibling]
                      n2 == [n1 EXCEPT ![sibling].parent = grandParent]
                      t1 == FreeNode([t EXCEPT !.nodes = n2], parent)
                  IN  WalkUp(t1, grandParent)
             ELSE FreeNode([t EXCEPT !.root = sibling,
                                     !.nodes[sibling].parent = b2_nullNode],
                           parent)

---------------------------------------------------------------------------
(* Public operations, as functions of the tree *)

\* The fattened box CreateProxy stores.
FatAABB(aabb) == grown(aabb, b2_aabbExtension)

\* Returns the tree and the new handle (id).
CreateProxy(t, aabb, userData, garbage) ==
    LET Fill(a) ==
          [t |-> InsertLeaf([a.t EXCEPT !.nodes[a.id].aabb = FatAABB(aabb),
                                        !.nodes[a.id].userData = userData,
                                        !.nodes[a.id].height = 0,
                                        !.nodes[a.id].moved = TRUE],
                            a.id, garbage),
           id |-> a.id]
    IN  Fill(AllocateNode(t, garbage))

DestroyProxy(t, proxyId) == FreeNode(RemoveLeaf(t, proxyId), proxyId)

PredictedAABBTrailing(aabb, displacement) ==
    LET fatAABB == grown(aabb, b2_aabbExtension)
        dx == b2_aabbMultiplier * displacement.x
        dy == b2_aabbMultiplier * displacement.y
        f1 == IF dx < 0 THEN [fatAABB EXCEPT !.right = @ + dx]
                        ELSE [fatAABB EXCEPT !.left = @ + dx]
    IN  IF dy < 0 THEN [f1 EXCEPT !.bottom = @ + dy]
                  ELSE [f1 EXCEPT !.top = @ + dy]

\* The fattened box of MoveProxy, extended on one side per axis by the
\* predicted motion.
PredictedAABB(aabb, displacement) ==
    LET fatAABB == grown(aabb, b2_aabbExtension)
        dx == b2_aabbMultiplier * displacement.x
        dy == b2_aabbMultiplier * displacement.y
        f1 == IF dx < 0 THEN [fatAABB EXCEPT !.left = @ + dx]
                        ELSE [fatAABB EXCEPT !.right = @ + dx]
    IN  IF dy < 0 THEN [f1 EXCEPT !.top = @ + dy]
                  ELSE [f1 EXCEPT !.bottom = @ + dy]

\* Mutant of NoUpdateNeeded: a stored box that contains the new one is
\* kept, however large it is.
NoUpdateNeededContained(treeAABB, aabb, fatAABB) == contains(treeAABB, aabb)

NoUpdateNeededTight(treeAABB, aabb, fatAABB) ==
    contains(treeAABB, aabb) /\ contains(fatAABB, treeAABB)

\* The test under which MoveProxy returns false without touching the tree.
NoUpdateNeeded(treeAABB, aabb, fatAABB) ==
    contains(treeAABB, aabb) /\
      contains(grown(fatAABB, 4 * b2_aabbExtension), treeAABB)

\* Returns the tree and the return value (ret).
MoveProxy(t, proxyId, aabb, displacement, garbage) ==
    LET Reinsert(fatAABB) ==
          IF NoUpdateNeeded(t.nodes[proxyId].aabb, aabb, fatAABB)
          THEN [t |-> t, ret |-> FALSE]
          ELSE [t |-> [InsertLeaf([RemoveLeaf(t, proxyId) EXCEPT
                                     !.nodes[proxyId].aabb = fatAABB],
                                  proxyId, garbage)
                       EXCEPT !.nodes[proxyId].moved = TRUE],
                ret |-> TRUE]
    IN  Reinsert(PredictedAABB(aabb, displacement))

GetUserData(t, proxyId) == t.nodes[proxyId].userData

WasMoved(t, proxyId) == t.nodes[proxyId].moved

\* Mutant of ClearMoved: the flag of every node is cleared.
ClearMovedEverywhere(t, proxyId) ==
    [t EXCEPT !.nodes = [i \in 0 .. t.cap - 1 |-> [t.nodes[i] EXCEPT !.moved = FALSE]]]

ClearMoved(t, proxyId) == [t EXCEPT !.nodes[proxyId].moved = FALSE]

GetFatAABB(t, proxyId) == t.nodes[proxyId].aabb

GetHeight(t) == IF t.root = b2_nullNode THEN 0 ELSE t.nodes[t.root].height

\* Depth at which the recursion of ComputeHeight is cut: deeper than any tree
\* of m_nodeCount nodes, so it is reached only on a cyclic (corrupt)
\* structure, where the code recurses until the stack overflows.
DepthLimit(t) == t.count + 1

\* The value standing for a recursion that does not return.
Diverges(t) == t.cap + 1

RECURSIVE ComputeHeightFrom(_, _, _)
ComputeHeightFrom(t, nodeId, fuel) ==
    IF fuel = 0 THEN Diverges(t)
    ELSE IF IsLeaf(t.nodes[nodeId]) THEN 0
    ELSE 1 + Max(ComputeHeightFrom(t, t.nodes[nodeId].child1, fuel - 1),
                 ComputeHeightFrom(t, t.nodes[nodeId].child2, fuel - 1))

ComputeHeight(t, nodeId) == ComputeHeightFrom(t, nodeId, DepthLimit(t))

GetMaxBalance(t) ==
    LET balanceOf(i) ==
          IF t.nodes[i].height <= 1 THEN 0
          ELSE Abs(t.nodes[t.nodes[i].child2].height
                   - t.nodes[t.nodes[i].child1].height)
    IN  CHOOSE m \in {balanceOf(i) : i \in 0 .. t.cap - 1} \cup {0} :
          \A i \in 0 .. t.cap - 1 : balanceOf(i) <= m

\* Mutant of ShiftOrigin: the boxes are moved by newOrigin, not against it.
ShiftOriginForward(t, newOrigin) ==
    [t EXCEPT !.nodes = [i \in 0 .. t.cap - 1 |->
        [t.nodes[i] EXCEPT !.aabb = move(@, newOrigin)]]]

ShiftOrigin(t, newOrigin) ==
    [t EXCEPT !.nodes = [i \in 0 .. t.cap - 1 |->
        [t.nodes[i] EXCEPT !.aabb = move(@, Vector(0 - newOrigin.x, 0 - newOrigin.y))]]]

---------------------------------------------------------------------------
(* Query *)

\* Pops after which the walk of Query is cut: more than a tree of
\* m_nodeCount nodes takes, so the cut is reached only on a cyclic (corrupt)
\* structure, where the code loops without end.
WalkLimit(t) == 2 * t.count + 2

\* The handles Query passes to a callback that always returns true, in the
\* order of the calls.  A walk that does not end reports the sentinel last.
RECURSIVE QueryWalk(_, _, _, _, _)
QueryWalk(t, aabb, stack, report, fuel) ==
    IF stack = << >> THEN report
    ELSE IF fuel = 0 THEN Append(report, b2_nullNode)
    ELSE LET nodeId == stack[Len(stack)]
             rest == SubSeq(stack, 1, Len(stack) - 1)
         IN  IF nodeId = b2_nullNode
             THEN QueryWalk(t, aabb, rest, report, fuel - 1)
             ELSE LET node == t.nodes[nodeId] IN
                  IF ~overlaps(node.aabb, aabb)
                  THEN QueryWalk(t, aabb, rest, report, fuel - 1)
                  ELSE IF IsLeaf(node)
                  THEN QueryWalk(t, aabb, rest, Append(report, nodeId), fuel - 1)
                  ELSE QueryWalk(t, aabb, rest \o <<node.child1, node.child2>>,
                                 report, fuel - 1)

Query(t, aabb) == QueryWalk(t, aabb, <<t.root>>, << >>, WalkLimit(t))

\* A client callback is modelled by the values it returns, in the order of
\* its invocations: the k-th invocation returns answers[k], and otherwise
\* returns after answers is used up.
Answer(answers, k, otherwise) ==
    IF k \in DOMAIN answers THEN answers[k] ELSE otherwise

\* Mutant of AfterQueryCallback: the walk goes on whatever the callback said.
AfterQueryCallbackGoOn(proceed, rest) == rest

\* The stack Query goes on with once QueryCallback has returned proceed:
\* on false it returns, which leaves nothing to walk.
AfterQueryCallback(proceed, rest) == IF proceed THEN rest ELSE << >>

\* The invocations of QueryCallback that Query makes, in order, each with
\* the handle passed and the value returned.  A walk that does not end
\* is cut with an invocation on the sentinel.
RECURSIVE QueryCalls(_, _, _, _, _, _)
QueryCalls(t, aabb, stack, calls, answers, fuel) ==
    IF stack = << >> THEN calls
    ELSE IF fuel = 0 THEN Append(calls, [id |-> b2_nullNode, proceed |-> TRUE])
    ELSE LET nodeId == stack[Len(stack)]
             rest == SubSeq(stack, 1, Len(stack) - 1)
         IN  IF nodeId = b2_nullNode
             THEN QueryCalls(t, aabb, rest, calls, answers, fuel - 1)
             ELSE LET node == t.nodes[nodeId]
                      proceed == Answer(answers, Len(calls) + 1, TRUE)
                  IN
                  IF ~overlaps(node.aabb, aabb)
                  THEN QueryCalls(t, aabb, rest, calls, answers, fuel - 1)
                  ELSE IF IsLeaf(node)
                  THEN QueryCalls(t, aabb, AfterQueryCallback(proceed, rest),
                                  Append(calls, [id |-> nodeId, proceed |-> proceed]),
                                  answers, fuel - 1)
                  ELSE QueryCalls(t, aabb, rest \o <<node.child1, node.child2>>,
                                  calls, answers, fuel - 1)

QueryWithCallback(t, aabb, answers) ==
    QueryCalls(t, aabb, <<t.root>>, << >>, answers, WalkLimit(t))

\* What a QueryCallback does with the tree before it returns true: it only
\* reads (GetUserData, GetFatAABB, WasMoved of the handle passed), it calls
\* ClearMoved of the handle passed, or it calls DestroyProxy(victim).
CallbackReads == [do |-> "read", victim |-> b2_nullNode]

CallbackClears == [do |-> "clear", victim |-> b2_nullNode]

CallbackDestroys(victim) == [do |-> "destroy", victim |-> victim]

\* The walk of Query once the callback, invoked on nodeId, has done act and
\* returned.  w holds the tree, the stack, the invocations made (calls), the
\* nodes popped so far, each with whether it was an allocated node when it
\* was popped, and the handles the client still holds (live).  valid tells
\* that every DestroyProxy was called on a handle the client held, other
\* than the one passed; another one is not carried out.
AfterReentrantCallback(w, nodeId, act) ==
    LET destroys == act.do = "destroy"
        allowed == act.victim \in w.live \ {nodeId}
    IN  [w EXCEPT
           !.calls = Append(@, [id |-> nodeId, act |-> act]),
           !.t = IF destroys /\ allowed THEN DestroyProxy(@, act.victim)
                 ELSE IF act.do = "clear" THEN ClearMoved(@, nodeId)
                 ELSE @,
           !.live = IF destroys THEN @ \ {act.victim} ELSE @,
           !.valid = @ /\ (destroys => allowed)]

\* Query with a callback that calls into the tree: Query holds no copy of
\* the tree, so that each turn of its loop reads the nodes as the callback
\* left them, while the stack keeps the handles pushed before.  The k-th
\* invocation does acts[k]; a walk that does not end is cut with a pop of
\* the sentinel.
RECURSIVE QueryReentrant(_, _, _, _)
QueryReentrant(w, aabb, acts, fuel) ==
    IF w.stack = << >> THEN w
    ELSE IF fuel = 0
    THEN [w EXCEPT !.popped = Append(@, [id |-> b2_nullNode, allocated |-> FALSE])]
    ELSE LET nodeId == w.stack[Len(w.stack)]
             rest == SubSeq(w.stack, 1, Len(w.stack) - 1)
         IN  IF nodeId = b2_nullNode
             THEN QueryReentrant([w EXCEPT !.stack = rest], aabb, acts, fuel - 1)
             ELSE LET node == w.t.nodes[nodeId]
                      seen == [w EXCEPT
                                 !.stack = rest,
                                 !.popped = Append(@, [id |-> nodeId,
                                                       allocated |-> node.height >= 0])]
                  IN
                  IF ~overlaps(node.aabb, aabb)
                  THEN QueryReentrant(seen, aabb, acts, fuel - 1)
                  ELSE IF IsLeaf(node)
                  THEN QueryReentrant(
                         AfterReentrantCallback(seen, nodeId,
                           Answer(acts, Len(w.calls) + 1, CallbackReads)),
                         aabb, acts, fuel - 1)
                  ELSE QueryReentrant(
                         [seen EXCEPT !.stack = rest \o <<node.child1, node.child2>>],
                         aabb, acts, fuel - 1)

QueryWithReentrantCallback(t, aabb, acts, live) ==
    QueryReentrant([t |-> t, stack |-> <<t.root>>, calls |-> << >>,
                    popped |-> << >>, live |-> live, valid |-> TRUE],
                   aabb, acts, WalkLimit(t))

---------------------------------------------------------------------------
(* RayCast.  A fraction is held as a whole number of FractionUnit-ths, and  *)
(* the rays cast are those whose p2 - p1 makes every point                  *)
(* p1 + maxFraction * (p2 - p1) fall on whole coordinates.                  *)

FractionUnit == 10

b2RayCastInput(p1, p2, maxFraction) ==
    [p1 |-> p1, p2 |-> p2, maxFraction |-> maxFraction]

\* p1 + maxFraction * (p2 - p1)
PointAt(p1, p2, maxFraction) ==
    Vector(p1.x + (maxFraction * (p2.x - p1.x)) \div FractionUnit,
           p1.y + (maxFraction * (p2.y - p1.y)) \div FractionUnit)

\* The bounding box of the segment from p1 to the point at maxFraction.
SegmentAABB(p1, p2, maxFraction) ==
    LET Box(t) == combine(Rectf(p1.x, p1.y, p1.x, p1.y), Rectf(t.x, t.y, t.x, t.y))
    IN  Box(PointAt(p1, p2, maxFraction))

\* The separating axis test: separation > 0, with v perpendicular to the
\* ray.  Twice the separation is computed, on the ray as given: its sign
\* is that of the separation on the normalised ray.
Separated(aabb, p1, p2) ==
    LET vx == 0 - (p2.y - p1.y)
        vy == p2.x - p1.x
    IN  Abs(vx * (2 * p1.x - (aabb.left + aabb.right))
            + vy * (2 * p1.y - (aabb.top + aabb.bottom)))
          - (Abs(vx) * (aabb.right - aabb.left) + Abs(vy) * (aabb.bottom - aabb.top))
        > 0

\* Mutant of Narrowed: a negative value gives the ray its whole length back.
NarrowedOrReset(value, maxFraction) ==
    IF value > 0 THEN value ELSE FractionUnit

\* maxFraction after RayCastCallback has returned value.
Narrowed(value, maxFraction) ==
    IF value > 0 THEN value ELSE maxFraction

\* Mutant of AfterRayCastCallback: the walk ends at the first value that
\* is not negative.
AfterRayCastCallbackStopOnHit(value, rest) == IF value >= 0 THEN << >> ELSE rest

\* Mutant of AfterRayCastCallback: the walk goes on after a return of 0.
AfterRayCastCallbackGoOn(value, rest) == rest

\* The stack RayCast goes on with once RayCastCallback has returned value:
\* on 0 it returns, which leaves nothing to walk.
AfterRayCastCallback(value, rest) == IF value = 0 THEN << >> ELSE rest

\* The invocations of RayCastCallback that RayCast makes, in order: the
\* handle and the subInput passed, the segment box the leaf was tested
\* against, and the value returned.  A walk that does not end is cut with
\* an invocation on the sentinel.
RECURSIVE RayCastCalls(_, _, _, _, _, _, _)
RayCastCalls(t, input, maxFraction, stack, calls, answers, fuel) ==
    IF stack = << >> THEN calls
    ELSE IF fuel = 0
    THEN Append(calls, [id |-> b2_nullNode,
                        subInput |-> b2RayCastInput(input.p1, input.p2, maxFraction),
                        segmentAABB |-> SegmentAABB(input.p1, input.p2, maxFraction),
                        value |-> 0])
    ELSE LET nodeId == stack[Len(stack)]
             rest == SubSeq(stack, 1, Len(stack) - 1)
         IN  IF nodeId = b2_nullNode
             THEN RayCastCalls(t, input, maxFraction, rest, calls, answers, fuel - 1)
             ELSE LET node == t.nodes[nodeId]
                      segmentAABB == SegmentAABB(input.p1, input.p2, maxFraction)
                      value == Answer(answers, Len(calls) + 1, -1)
                  IN
                  IF ~overlaps(node.aabb, segmentAABB)
                  THEN RayCastCalls(t, input, maxFraction, rest, calls, answers, fuel - 1)
                  ELSE IF Separated(node.aabb, input.p1, input.p2)
                  THEN RayCastCalls(t, input, maxFraction, rest, calls, answers, fuel - 1)
                  ELSE IF IsLeaf(node)
                  THEN RayCastCalls(t, input, Narrowed(value, maxFraction),
                                    AfterRayCastCallback(value, rest),
                                    Append(calls,
                                      [id |-> nodeId,
                                       subInput |-> b2RayCastInput(input.p1, input.p2,
                                                                   maxFraction),
                                       segmentAABB |-> segmentAABB,
                                       value |-> value]),
                                    answers, fuel - 1)
                  ELSE RayCastCalls(t, input, maxFraction,
                                    rest \o <<node.child1, node.child2>>,
                                    calls, answers, fuel - 1)

RayCast(t, input, answers) ==
    RayCastCalls(t, input, input.maxFraction, <<t.root>>, << >>, answers, WalkLimit(t))

---------------------------------------------------------------------------
(* RebuildBottomUp *)

\* The first loop: leaves are collected in index order into the local array
\* (a sequence here), every internal node is freed.
RECURSIVE CollectLeaves(_, _, _)
CollectLeaves(t, i, nodes) ==
    IF i >= t.cap THEN [t |-> t, nodes |-> nodes]
    ELSE IF t.nodes[i].height < 0 THEN CollectLeaves(t, i + 1, nodes)
    ELSE IF IsLeaf(t.nodes[i])
         THEN CollectLeaves([t EXCEPT !.nodes[i].parent = b2_nullNode],
                            i + 1, Append(nodes, i))
         ELSE CollectLeaves(FreeNode(t, i), i + 1, nodes)

\* The pair the double loop selects: of least combined perimeter, the first
\* such pair in the order of the scan.
MinPair(t, nodes) ==
    LET count == Len(nodes)
        Pairs == {p \in (1 .. count) \X (1 .. count) : p[1] < p[2]}
        cost(p) == get_perimeter(combine(t.nodes[nodes[p[1]]].aabb,
                                         t.nodes[nodes[p[2]]].aabb))
        before(p, q) == p[1] < q[1] \/ (p[1] = q[1] /\ p[2] <= q[2])
    IN  CHOOSE p \in Pairs :
          \A q \in Pairs : cost(p) < cost(q) \/ (cost(p) = cost(q) /\ before(p, q))

\* The second loop: pair, allocate a parent, shrink the array.
RECURSIVE MergePairs(_, _, _)
MergePairs(t, nodes, garbage) ==
    LET count == Len(nodes)
        Join(p, a) ==
          MergePairs(
            [a.t EXCEPT
               !.nodes = [@ EXCEPT
                  ![a.id].child1 = nodes[p[1]],
                  ![a.id].child2 = nodes[p[2]],
                  ![a.id].height = 1 + Max(a.t.nodes[nodes[p[1]]].height,
                                           a.t.nodes[nodes[p[2]]].height),
                  ![a.id].aabb = combine(a.t.nodes[nodes[p[1]]].aabb,
                                         a.t.nodes[nodes[p[2]]].aabb),
                  ![a.id].parent = b2_nullNode,
                  ![nodes[p[1]]].parent = a.id,
                  ![nodes[p[2]]].parent = a.id]],
            SubSeq([nodes EXCEPT ![p[2]] = nodes[count], ![p[1]] = a.id],
                   1, count - 1),
            garbage)
    IN  IF count <= 1 THEN [t |-> t, nodes |-> nodes]
        ELSE Join(MinPair(t, nodes), AllocateNode(t, garbage))

\* Mutant of RebuildBottomUp: the leaves are collected and never paired.
RebuildBottomUpUnpaired(t, garbageRoot, garbage) ==
    LET Root(c) ==
          [c.t EXCEPT !.root = IF c.nodes = << >> THEN garbageRoot ELSE c.nodes[1]]
    IN  Root(CollectLeaves(t, 0, << >>))

\* nodes[0] is read from an array of m_nodeCount ints: with no allocated
\* node the array is empty and the read yields whatever lies there
\* (garbageRoot).
RebuildBottomUp(t, garbageRoot, garbage) ==
    LET Root(m) ==
          [m.t EXCEPT !.root = IF m.nodes = << >> THEN garbageRoot ELSE m.nodes[1]]
        Merge(c) == Root(MergePairs(c.t, c.nodes, garbage))
    IN  Merge(CollectLeaves(t, 0, << >>))

---------------------------------------------------------------------------
(* Inputs of the calls *)

\* Tight boxes the client passes to CreateProxy and MoveProxy.
Tights == {Rectf(0, 0, 2, 2), Rectf(1, 0, 3, 2), Rectf(6, 0, 8, 2)}

\* Displacements passed to MoveProxy.
Displacements == {Vector(3, -1), Vector(-3, 1)}

\* The user data pointer of the next proxy: the client registers a distinct
\* object with every proxy.
FreshUserData(t) == t.ins + 1

\* Origins passed to ShiftOrigin.
Origins == {Vector(8, 3), Vector(-8, -3)}

\* What freshly allocated pool memory may hold.
Garbage ==
    {ZeroedNode(0),
     [aabb |-> Rectf(1, 1, 0, 0), userData |-> 2, parent |-> 0,
      child1 |-> b2_nullNode, child2 |-> 3, height |-> 0, moved |-> TRUE]}

\* The garbage that matters to a call making at most k allocations.
GarbageFor(t, k) == IF t.count + k > t.cap THEN Garbage ELSE {ZeroedNode(0)}

\* What the out-of-bounds read of RebuildBottomUp may yield on an empty tree:
\* the sentinel, or an index: the lowest slot and the highest stand for the
\* in-range indices.
GarbageRoots(t) == {b2_nullNode, 0, t.cap - 1}

\* The boxes the queries ask for.
QueryBoxes == {Rectf(0, 0, 1, 1), Rectf(4, 0, 5, 2), Rectf(-6, -3, -5, -2)}

NoCall == [op |-> "none", ret |-> FALSE, rot |-> 0, inside |-> FALSE]

---------------------------------------------------------------------------
(* The state machine *)

Publish(t) ==
    /\ m_nodes' = t.nodes
    /\ m_root' = t.root
    /\ m_nodeCount' = t.count
    /\ m_nodeCapacity' = t.cap
    /\ m_freeList' = t.free
    /\ m_insertionCount' = t.ins

Init ==
    /\ m_nodes = NewTree.nodes
    /\ m_root = NewTree.root
    /\ m_nodeCount = NewTree.count
    /\ m_nodeCapacity = NewTree.cap
    /\ m_freeList = NewTree.free
    /\ m_insertionCount = NewTree.ins
    /\ proxies = << >>
    /\ last = NoCall

\* m_root is the sentinel or an allocated node: InsertLeaf may follow it.
RootDefined == IF m_root = b2_nullNode THEN TRUE ELSE m_nodes[m_root].height >= 0

\* CreateProxy, whatever m_root holds.
CreateProxyAnyRoot(aabb, userData, limit) ==
    /\ m_insertionCount < limit
    /\ \E garbage \in GarbageFor(Tree, 2) :
       \E r \in {CreateProxy(Tree, aabb, userData, garbage)} :
         /\ Publish(r.t)
         /\ proxies' = [h \in DOMAIN proxies \cup {r.id} |->
                          IF h = r.id THEN userData ELSE proxies[h]]
         /\ last' = [op |-> "CreateProxy", ret |-> TRUE, rot |-> r.t.rot,
                     inside |-> FALSE, checked |-> r.t.checked,
                     failed |-> r.t.failed]

\* CreateProxy on a tree whose root is defined.
CreateProxyCall(aabb, userData, limit) ==
    /\ RootDefined
    /\ CreateProxyAnyRoot(aabb, userData, limit)

DestroyProxyCall(proxyId, floor) ==
    /\ proxyId \in DOMAIN proxies
    /\ m_nodeCount > floor
    /\ \E t \in {DestroyProxy(Tree, proxyId)} :
         /\ Publish(t)
         /\ last' = [op |-> "DestroyProxy", ret |-> TRUE, rot |-> t.rot,
                     inside |-> FALSE, checked |-> t.checked, failed |-> t.failed]
    /\ proxies' = [h \in DOMAIN proxies \ {proxyId} |-> proxies[h]]

MoveProxyCall(proxyId, aabb, displacement, limit) ==
    /\ proxyId \in DOMAIN proxies
    /\ \E r \in {MoveProxy(Tree, proxyId, aabb, displacement, ZeroedNode(0))} :
       /\ r.ret => m_insertionCount < limit
       /\ Publish(r.t)
       /\ last' = [op |-> "MoveProxy", ret |-> r.ret, rot |-> r.t.rot,
                   inside |-> contains(GetFatAABB(Tree, proxyId), aabb),
                   id |-> proxyId, checked |-> r.t.checked, failed |-> r.t.failed]
    /\ UNCHANGED proxies

ClearMovedCall(proxyId) ==
    /\ proxyId \in DOMAIN proxies
    /\ Publish(ClearMoved(Tree, proxyId))
    /\ last' = [op |-> "ClearMoved", ret |-> TRUE, rot |-> 0, inside |-> FALSE,
                id |-> proxyId]
    /\ UNCHANGED proxies

RebuildBottomUpCall ==
    /\ \E garbageRoot \in (IF m_nodeCount = 0 THEN GarbageRoots(Tree) ELSE {b2_nullNode}) :
       \E t \in {RebuildBottomUp(Tree, garbageRoot, ZeroedNode(0))} :
         /\ Publish(t)
         /\ last' = [op |-> "RebuildBottomUp", ret |-> TRUE, rot |-> 0,
                     inside |-> FALSE, checked |-> t.checked, failed |-> t.failed]
    /\ UNCHANGED proxies

CoordsWithin(t, bound) ==
    \A i \in 0 .. t.cap - 1 :
        /\ Abs(t.nodes[i].aabb.left) <= bound
        /\ Abs(t.nodes[i].aabb.right) <= bound
        /\ Abs(t.nodes[i].aabb.top) <= bound
        /\ Abs(t.nodes[i].aabb.bottom) <= bound

ShiftOriginCall(newOrigin, bound) ==
    /\ \E t \in {ShiftOrigin(Tree, newOrigin)} :
         /\ CoordsWithin(t, bound)
         /\ Publish(t)
    /\ last' = [op |-> "ShiftOrigin", ret |-> TRUE, rot |-> 0, inside |-> FALSE]
    /\ UNCHANGED proxies

\* The calls that change the tree, with at most limit insertions in all, no
\* destruction at floor allocated nodes or fewer and coordinates within
\* bound.
Mutation(limit, floor, bound) ==
    \/ \E aabb \in Tights : CreateProxyCall(aabb, FreshUserData(Tree), limit)
    \/ \E proxyId \in DOMAIN proxies : DestroyProxyCall(proxyId, floor)
    \/ \E proxyId \in DOMAIN proxies, aabb \in Tights, displacement \in Displacements :
         MoveProxyCall(proxyId, aabb, displacement, limit)
    \/ RebuildBottomUpCall
    \/ \E newOrigin \in Origins : ShiftOriginCall(newOrigin, bound)

Next == Mutation(MaxInsertions, 0, MaxCoord)

Spec == Init /\ [][Next]_vars

\* With ClearMoved among the calls, this many InsertLeaf calls are made.
MovedInsertions == 2

\* The mutations together with the client's clearing of moved flags.
NextMoved ==
    \/ Mutation(MovedInsertions, 0, MaxCoord)
    \/ \E proxyId \in DOMAIN proxies : ClearMovedCall(proxyId)

SpecMoved == Init /\ [][NextMoved]_vars

---------------------------------------------------------------------------
(* A deeper tree.  The exploration starts from the tree the client has      *)
(* after creating the proxies of SeedTights in order on a new tree.         *)

SeedTights == <<Rectf(0, 0, 2, 2), Rectf(6, 0, 8, 2), Rectf(1, 0, 3, 2)>>

\* The tree and the client's handles after the first k creations of tights.
RECURSIVE Seeded(_, _)
Seeded(tights, k) ==
    LET Add(s) ==
          LET Keep(r) ==
                [t |-> r.t,
                 proxies |-> [h \in DOMAIN s.proxies \cup {r.id} |->
                                IF h = r.id THEN FreshUserData(s.t)
                                ELSE s.proxies[h]]]
          IN  Keep(CreateProxy([s.t EXCEPT !.rot = 0, !.checked = {}, !.failed = {}],
                               tights[k], FreshUserData(s.t), ZeroedNode(0)))
    IN  IF k = 0 THEN [t |-> NewTree, proxies |-> << >>]
        ELSE Add(Seeded(tights, k - 1))

SeedTree == Seeded(SeedTights, Len(SeedTights))

InitDeep ==
    /\ m_nodes = SeedTree.t.nodes
    /\ m_root = SeedTree.t.root
    /\ m_nodeCount = SeedTree.t.count
    /\ m_nodeCapacity = SeedTree.t.cap
    /\ m_freeList = SeedTree.t.free
    /\ m_insertionCount = SeedTree.t.ins
    /\ proxies = SeedTree.proxies
    /\ last = [op |-> "CreateProxy", ret |-> TRUE, rot |-> SeedTree.t.rot,
               inside |-> FALSE, checked |-> SeedTree.t.checked,
               failed |-> SeedTree.t.failed]

NextDeep == Mutation(Len(SeedTights) + DeepInsertions, 0, MaxCoord)

SpecDeep == InitDeep /\ [][NextDeep]_vars

\* The deeper tree with the client's clearing of moved flags.
NextDeepMoved ==
    \/ NextDeep
    \/ \E proxyId \in DOMAIN proxies : ClearMovedCall(proxyId)

SpecDeepMoved == InitDeep /\ [][NextDeepMoved]_vars

---------------------------------------------------------------------------
(* Pool growth.  The exploration starts from the tree holding the eight     *)
(* proxies of GrowTights (15 of the 16 slots), so that the next creation    *)
(* empties the free list and doubles the pool.                              *)

\* From the grown seed, this many further InsertLeaf calls are made.
GrowInsertions == 1

\* From the grown seed, DestroyProxy is taken while more than this many
\* nodes are allocated.
GrowFloor == 16

\* From the grown seed, ShiftOrigin is taken while it leaves every
\* coordinate within this distance of the origin.
GrowCoord == 12

GrowTights ==
    <<Rectf(0, 0, 2, 2), Rectf(6, 0, 8, 2), Rectf(1, 0, 3, 2), Rectf(6, 0, 8, 2),
      Rectf(0, 0, 2, 2), Rectf(1, 0, 3, 2), Rectf(6, 0, 8, 2), Rectf(0, 0, 2, 2)>>

GrowTree == Seeded(GrowTights, Len(GrowTights))

InitGrow ==
    /\ m_nodes = GrowTree.t.nodes
    /\ m_root = GrowTree.t.root
    /\ m_nodeCount = GrowTree.t.count
    /\ m_nodeCapacity = GrowTree.t.cap
    /\ m_freeList = GrowTree.t.free
    /\ m_insertionCount = GrowTree.t.ins
    /\ proxies = GrowTree.proxies
    /\ last = [op |-> "CreateProxy", ret |-> TRUE, rot |-> GrowTree.t.rot,
               inside |-> FALSE, checked |-> GrowTree.t.checked,
               failed |-> GrowTree.t.failed]

NextGrow == Mutation(Len(GrowTights) + GrowInsertions, GrowFloor, GrowCoord)

SpecGrow == InitGrow /\ [][NextGrow]_vars

---------------------------------------------------------------------------
(* A stored box grown large.  The exploration starts from the tree of one   *)
(* proxy that was created and then moved fast: its stored box is extended   *)
(* by twice the displacement, so that a later move inside it finds it too   *)
(* large.                                                                   *)

\* From the tree of the fast proxy, this many further InsertLeaf calls are
\* made.
FastInsertions == 2

FastSeed == Seeded(<<Rectf(0, 0, 2, 2)>>, 1)

\* The tree after MoveProxy of the one proxy to the far end of the row,
\* with a displacement.
FastTree ==
    LET Moved(h) ==
          MoveProxy([FastSeed.t EXCEPT !.rot = 0, !.checked = {}, !.failed = {}],
                    h, Rectf(6, 0, 8, 2), Vector(-3, 1), ZeroedNode(0))
    IN  Moved(CHOOSE h \in DOMAIN FastSeed.proxies : TRUE)

InitFast ==
    /\ m_nodes = FastTree.t.nodes
    /\ m_root = FastTree.t.root
    /\ m_nodeCount = FastTree.t.count
    /\ m_nodeCapacity = FastTree.t.cap
    /\ m_freeList = FastTree.t.free
    /\ m_insertionCount = FastTree.t.ins
    /\ proxies = FastSeed.proxies
    /\ last = [op |-> "MoveProxy", ret |-> FastTree.ret, rot |-> FastTree.t.rot,
               inside |-> FALSE, id |-> CHOOSE h \in DOMAIN FastSeed.proxies : TRUE,
               checked |-> FastTree.t.checked, failed |-> FastTree.t.failed]

NextFast ==
    \/ Mutation(FastTree.t.ins + FastInsertions, 0, MaxCoord)
    \/ \E proxyId \in DOMAIN proxies : ClearMovedCall(proxyId)

SpecFast == InitFast /\ [][NextFast]_vars

---------------------------------------------------------------------------
(* Large worlds.  From the deeper tree, the origin is shifted far enough    *)
(* for the floats around the shifted coordinates to be more than one unit   *)
(* apart.  The calls taken with it are those that compute no perimeter.     *)

\* Origins of a large world.
FarOrigins == {Vector(2 ^ FloatDigits, 0), Vector(0 - 2 ^ FloatDigits, 0)}

\* ShiftOrigin by a far origin is taken while every stored coordinate stays
\* within this.
FarCoord == 2 ^ FloatDigits + 2 ^ 5

NextFar ==
    \/ \E newOrigin \in FarOrigins : ShiftOriginCall(newOrigin, FarCoord)
    \/ \E proxyId \in DOMAIN proxies : DestroyProxyCall(proxyId, 0)
    \/ \E proxyId \in DOMAIN proxies : ClearMovedCall(proxyId)

SpecFar == InitDeep /\ [][NextFar]_vars

---------------------------------------------------------------------------
(* Queries.  Query and RayCast are const: they leave the tree as it is, and *)
(* what the client sees of them is the invocations of its callback.         *)

\* With the queries among the calls, this many InsertLeaf calls are made.
QueryInsertions == 2

\* The callbacks of Query: one that never stops, one that stops at its
\* first invocation and one that stops at its second.
QueryAnswers == {<< >>, <<FALSE>>, <<TRUE, FALSE>>}

\* The rays cast: along the row of Tights over its whole length and over
\* its first half, and across it.
RayInputs ==
    {b2RayCastInput(Vector(-10, 1), Vector(10, 1), FractionUnit),
     b2RayCastInput(Vector(-10, 1), Vector(10, 1), 5),
     b2RayCastInput(Vector(-9, -10), Vector(11, 10), FractionUnit)}

\* The values a RayCastCallback returns: 0, a negative value and fractions.
RayValues == {0, -1, 3, 6}

\* The callbacks of RayCast, by their first two returns.
RayAnswers ==
    {<< >>} \cup {<<a>> : a \in RayValues}
            \cup {<<a, b>> : a \in RayValues \ {0}, b \in RayValues}

QueryCall(aabb, answers) ==
    /\ last' = [op |-> "Query", ret |-> TRUE, rot |-> 0, inside |-> FALSE,
                aabb |-> aabb,
                calls |-> QueryWithCallback(Tree, aabb, answers)]
    /\ UNCHANGED <<m_nodes, m_root, m_nodeCount, m_nodeCapacity, m_freeList,
                   m_insertionCount, proxies>>

RayCastCall(input, answers) ==
    /\ last' = [op |-> "RayCast", ret |-> TRUE, rot |-> 0, inside |-> FALSE,
                input |-> input,
                calls |-> RayCast(Tree, input, answers)]
    /\ UNCHANGED <<m_nodes, m_root, m_nodeCount, m_nodeCapacity, m_freeList,
                   m_insertionCount, proxies>>

\* The mutations, the clearing of moved flags and the queries.
NextQuery ==
    \/ Mutation(QueryInsertions, 0, MaxCoord)
    \/ \E proxyId \in DOMAIN proxies : ClearMovedCall(proxyId)
    \/ \E aabb \in QueryBoxes, answers \in QueryAnswers : QueryCall(aabb, answers)
    \/ \E input \in RayInputs, answers \in RayAnswers : RayCastCall(input, answers)

SpecQuery == Init /\ [][NextQuery]_vars

---------------------------------------------------------------------------
(* Ray narrowing.  Three proxies in a row, ten units wide and forty apart,  *)
(* and rays along the row.                                                  *)

RowTights == <<Rectf(0, 0, 10, 10), Rectf(50, 0, 60, 10), Rectf(100, 0, 110, 10)>>

RowTree == Seeded(RowTights, Len(RowTights))

\* The ray along the whole row, from before its first box to beyond its
\* last.
RowRay == b2RayCastInput(Vector(-10, 5), Vector(200, 5), FractionUnit)

\* The rays cast along the row: the whole ray, its first half, and the
\* whole ray from the other end.
RowInputs ==
    {RowRay,
     b2RayCastInput(RowRay.p1, RowRay.p2, 5),
     b2RayCastInput(RowRay.p2, RowRay.p1, FractionUnit)}

\* The values a RayCastCallback returns for the row.
RowValues == {0, -1, 1, 3, FractionUnit}

\* The callbacks of RayCast on the row, by their first three returns.
RowAnswers ==
    {<<a>> : a \in RowValues}
      \cup {<<a, b>> : a \in RowValues \ {0}, b \in RowValues}
      \cup {<<a, b, c>> : a \in RowValues \ {0}, b \in RowValues \ {0}, c \in RowValues}

InitRow ==
    /\ m_nodes = RowTree.t.nodes
    /\ m_root = RowTree.t.root
    /\ m_nodeCount = RowTree.t.count
    /\ m_nodeCapacity = RowTree.t.cap
    /\ m_freeList = RowTree.t.free
    /\ m_insertionCount = RowTree.t.ins
    /\ proxies = RowTree.proxies
    /\ last = [op |-> "CreateProxy", ret |-> TRUE, rot |-> RowTree.t.rot,
               inside |-> FALSE, checked |-> RowTree.t.checked,
               failed |-> RowTree.t.failed]

NextRow == \E input \in RowInputs, answers \in RowAnswers : RayCastCall(input, answers)

SpecRow == InitRow /\ [][NextRow]_vars

---------------------------------------------------------------------------
(* The stacked column.  Boxes ten units wide and high are created one on    *)
(* top of the other on a new tree, in order; between the creations the      *)
(* client queries the column.                                               *)

\* The height of the column, in boxes.
ColumnLen == 32

ColumnTights == [i \in 1 .. ColumnLen |-> Rectf(0, 10 * (i - 1), 10, 10 * i)]

\* The boxes queried in the column: its foot, its middle and a box apart.
ColumnQueries == {Rectf(0, 0, 10, 10), Rectf(2, 155, 4, 165), Rectf(40, 0, 50, 400)}

NextColumn ==
    \/ /\ m_insertionCount < ColumnLen
       /\ CreateProxyCall(ColumnTights[m_insertionCount + 1], FreshUserData(Tree),
                          ColumnLen)
    \/ \E aabb \in ColumnQueries : QueryCall(aabb, << >>)

SpecColumn == Init /\ [][NextColumn]_vars

---------------------------------------------------------------------------
(* Callbacks that call into the tree.  The client creates and destroys      *)
(* proxies, rebuilds, and queries with callbacks that read, clear moved     *)
(* flags or destroy other proxies before they return.                       *)

\* With callbacks calling into the tree, this many InsertLeaf calls are made.
ReentrantInsertions == 3

\* What the callback does at its first invocations; it only reads at the
\* later ones.
ReentrantActs ==
    LET Acts == {CallbackReads, CallbackClears}
                  \cup {CallbackDestroys(h) : h \in DOMAIN proxies}
    IN  {<<a>> : a \in Acts} \cup {<<a, b>> : a \in Acts, b \in Acts}

QueryReentrantCall(aabb, acts) ==
    \E w \in {QueryWithReentrantCallback(Tree, aabb, acts, DOMAIN proxies)} :
      /\ w.valid
      /\ Publish(w.t)
      /\ proxies' = [h \in w.live |-> proxies[h]]
      /\ last' = [op |-> "Query", ret |-> TRUE, rot |-> w.t.rot, inside |-> FALSE,
                  aabb |-> aabb, calls |-> w.calls, popped |-> w.popped,
                  checked |-> w.t.checked, failed |-> w.t.failed]

NextReentrant ==
    \/ \E aabb \in Tights :
         CreateProxyCall(aabb, FreshUserData(Tree), ReentrantInsertions)
    \/ \E proxyId \in DOMAIN proxies : DestroyProxyCall(proxyId, 0)
    \/ RebuildBottomUpCall
    \/ \E aabb \in QueryBoxes, acts \in ReentrantActs : QueryReentrantCall(aabb, acts)

SpecReentrant == Init /\ [][NextReentrant]_vars

---------------------------------------------------------------------------
(* The stale root.  RebuildBottomUp on a tree without proxies leaves m_root *)
(* with whatever its read of nodes[0] yields.  Here the client rebuilds     *)
(* while it holds no proxy, and CreateProxy is taken on the tree this       *)
(* leaves: InsertLeaf follows m_root as it finds it.                        *)

\* With a stale root among the trees, this many InsertLeaf calls are made.
StaleInsertions == 2

NextStale ==
    \/ \E aabb \in Tights :
         CreateProxyAnyRoot(aabb, FreshUserData(Tree), StaleInsertions)
    \/ \E proxyId \in DOMAIN proxies : DestroyProxyCall(proxyId, 0)
    \/ (DOMAIN proxies = {} /\ RebuildBottomUpCall)

SpecStale == Init /\ [][NextStale]_vars

---------------------------------------------------------------------------
(* Vocabulary of the properties *)

Range(seq) == {seq[i] : i \in DOMAIN seq}

\* The slots in use: FreeNode and the pool's growth mark the others with
\* height -1.
Allocated(t) == {i \in 0 .. t.cap - 1 : t.nodes[i].height >= 0}

AllocatedLeaves(t) == {i \in Allocated(t) : IsLeaf(t.nodes[i])}

AllocatedInternal(t) == {i \in Allocated(t) : ~IsLeaf(t.nodes[i])}

\* The slots met by following the next links from m_freeList; a chain that
\* leaves the pool or does not end within the capacity is cut after
\* capacity + 1 slots.
RECURSIVE FreeChain(_, _, _)
FreeChain(t, i, fuel) ==
    IF i = b2_nullNode THEN << >>
    ELSE IF fuel = 0 \/ i \notin 0 .. t.cap - 1 THEN <<i>>
    ELSE <<i>> \o FreeChain(t, t.nodes[i].parent, fuel - 1)

FreeList(t) == FreeChain(t, t.free, t.cap)

\* The nodes met by following child links from nodeId, nodeId included; the
\* descent is cut where it leaves the pool and at depth fuel.
RECURSIVE Subtree(_, _, _)
Subtree(t, nodeId, fuel) ==
    IF fuel = 0 \/ nodeId \notin 0 .. t.cap - 1 THEN {}
    ELSE IF IsLeaf(t.nodes[nodeId]) THEN {nodeId}
    ELSE {nodeId} \cup Subtree(t, t.nodes[nodeId].child1, fuel - 1)
                  \cup Subtree(t, t.nodes[nodeId].child2, fuel - 1)

\* The number of nodes met by walking the child links from nodeId, a node
\* counted once for every path that leads to it; a walk that does not end is
\* cut after fuel links.
RECURSIVE Visits(_, _, _)
Visits(t, nodeId, fuel) ==
    IF fuel = 0 \/ nodeId \notin 0 .. t.cap - 1 THEN 0
    ELSE IF IsLeaf(t.nodes[nodeId]) THEN 1
    ELSE 1 + Visits(t, t.nodes[nodeId].child1, fuel - 1)
           + Visits(t, t.nodes[nodeId].child2, fuel - 1)

\* The step is the call MoveProxy(proxyId, aabb, displacement).
MoveProxyStep(proxyId, aabb, displacement) ==
    MoveProxyCall(proxyId, aabb, displacement, m_insertionCount + 1)

\* The step is the call CreateProxy(aabb, .).
CreateProxyStep(aabb) ==
    CreateProxyCall(aabb, FreshUserData(Tree), m_insertionCount + 1)

\* The step is the call ShiftOrigin(newOrigin).
ShiftOriginStep(newOrigin) == ShiftOriginCall(newOrigin, FarCoord)

\* The box a translated by -v, in exact arithmetic.
Translated(a, v) == Rectf(a.left - v.x, a.top - v.y, a.right - v.x, a.bottom - v.y)

\* The candidates the descent of InsertLeaf visits from index, in order: the
\* last one is the sibling.
RECURSIVE DescentPath(_, _, _)
DescentPath(t, leafAABB, index) ==
    LET Go(next) ==
          IF next = index THEN <<index>>
          ELSE <<index>> \o DescentPath(t, leafAABB, next)
    IN  IF IsLeaf(t.nodes[index]) THEN <<index>>
        ELSE Go(NextCandidate(t, leafAABB, index))

\* The three costs the descent compares at the internal node index.
DescentCosts(t, leafAABB, index) ==
    LET P(i) == get_perimeter(t.nodes[i].aabb)
        U(i) == get_perimeter(combine(t.nodes[i].aabb, leafAABB))
        Down(c) == (IF IsLeaf(t.nodes[c]) THEN U(c) ELSE U(c) - P(c))
                     + 2 * (U(index) - P(index))
    IN  [cost |-> 2 * U(index),
         cost1 |-> Down(t.nodes[index].child1),
         cost2 |-> Down(t.nodes[index].child2)]

\* What one call of AllocateNode on t does to the pool: with a slot on the
\* free list the capacity stays; with none, every slot is allocated, the
\* capacity doubles, the old records are kept, the new slots but the first
\* are chained in ascending order, and the first (the old capacity) is the
\* handle returned.
AllocationGrowsWhenFull(t, garbage) ==
    LET r == AllocateNode(t, garbage) IN
    IF t.free # b2_nullNode THEN r.t.cap = t.cap
    ELSE /\ t.count = t.cap
         /\ r.t.cap = 2 * t.cap
         /\ r.id = t.cap
         /\ \A i \in 0 .. t.cap - 1 : r.t.nodes[i] = t.nodes[i]
         /\ FreeList(r.t) = [k \in 1 .. t.cap - 1 |-> t.cap + k]

TreeUnchanged ==
    UNCHANGED <<m_nodes, m_root, m_nodeCount, m_nodeCapacity, m_freeList,
                m_insertionCount>>

\* The box MoveProxy compares the stored box against before it returns false.
HugeAABB(aabb, displacement) ==
    grown(PredictedAABB(aabb, displacement), 4 * b2_aabbExtension)

\* Every handle the client holds is an allocated leaf carrying the user data
\* given at its creation.
HandlesValid ==
    \A h \in DOMAIN proxies :
        /\ h \in AllocatedLeaves(Tree)
        /\ m_nodes[h].height = 0
        /\ GetUserData(Tree, h) = proxies[h]

---------------------------------------------------------------------------
(* Properties *)

\* C1: structural consistency.  Every allocated internal node has two
\* children inside the pool whose parent link is that node; when a
\* proxy exists exactly one allocated node has parent = sentinel and it is
\* m_root; when no proxy exists m_root is the sentinel.
StructureConsistent ==
    /\ \A i \in AllocatedInternal(Tree) :
         /\ m_nodes[i].child1 \in 0 .. m_nodeCapacity - 1
         /\ m_nodes[i].child2 \in 0 .. m_nodeCapacity - 1
         /\ m_nodes[m_nodes[i].child1].parent = i
         /\ m_nodes[m_nodes[i].child2].parent = i
    /\ IF DOMAIN proxies = {}
       THEN m_root = b2_nullNode
       ELSE {i \in Allocated(Tree) : m_nodes[i].parent = b2_nullNode} = {m_root}

\* C2: height correctness.  Every allocated node has height 0 exactly when
\* it is a leaf and 1 + max of its children's heights otherwise, the stored
\* height is the computed one, and GetHeight() = ComputeHeight(m_root).
HeightsCorrect ==
    /\ \A i \in Allocated(Tree) :
         /\ (m_nodes[i].height = 0) <=> IsLeaf(m_nodes[i])
         /\ ~IsLeaf(m_nodes[i]) =>
              m_nodes[i].height = 1 + Max(m_nodes[m_nodes[i].child1].height,
                                          m_nodes[m_nodes[i].child2].height)
         /\ m_nodes[i].height = ComputeHeight(Tree, i)
    /\ m_root # b2_nullNode => GetHeight(Tree) = ComputeHeight(Tree, m_root)

QueryExact ==
    \A aabb \in QueryBoxes :
        LET report == Query(Tree, aabb) IN
        /\ Cardinality(Range(report)) = Len(report)
        /\ Range(report) =
             {i \in AllocatedLeaves(Tree) : overlaps(m_nodes[i].aabb, aabb)}

\* C7: a handle stays valid until it is destroyed.  Every handle the client
\* holds is an allocated leaf with the user data given at its creation,
\* whatever was created, destroyed, moved, rebuilt or grown since; and its
\* box changes only in MoveProxy on that handle returning true or in
\* ShiftOrigin.
HandleStability ==
    /\ HandlesValid
    /\ [][/\ HandlesValid'
          /\ \A h \in DOMAIN proxies \cap DOMAIN proxies' :
               GetFatAABB(Tree', h) # GetFatAABB(Tree, h) =>
                 \/ last'.op = "ShiftOrigin"
                 \/ /\ last'.op = "MoveProxy"
                    /\ last'.ret
                    /\ \E aabb \in Tights, displacement \in Displacements :
                         MoveProxyStep(h, aabb, displacement)]_vars

\* C7 witness: nine proxies are held in a pool that has grown.
HandleStabilityWitness ==
    /\ m_nodeCapacity > InitialCapacity
    /\ Cardinality(DOMAIN proxies) > Len(GrowTights)

\* C8: MoveProxy(h, aabb, d) called while the stored box contains aabb and
\* the predicted box grown by 4 extensions contains the stored box returns
\* false and leaves the whole tree, moved flags included, as it was.
MoveInsideIsNoOp ==
    [][\A h \in DOMAIN proxies, aabb \in Tights, displacement \in Displacements :
         (/\ last'.op = "MoveProxy"
          /\ contains(GetFatAABB(Tree, h), aabb)
          /\ contains(HugeAABB(aabb, displacement), GetFatAABB(Tree, h))
          /\ MoveProxyStep(h, aabb, displacement))
         => (~last'.ret /\ TreeUnchanged)]_vars

\* C8 witness: MoveProxy has returned false on a tree where a moved flag
\* is cleared.
MoveInsideIsNoOpWitness ==
    /\ last.op = "MoveProxy"
    /\ ~last.ret
    /\ \E h \in DOMAIN proxies : ~WasMoved(Tree, h)

\* C9: the box stored for a proxy contains the tight box given to
\* CreateProxy when it returns, and the tight box given to MoveProxy when
\* it returns true.
FatContainsTight ==
    [][/\ \A aabb \in Tights :
            (last'.op = "CreateProxy" /\ CreateProxyStep(aabb)) =>
              \A h \in DOMAIN proxies' \ DOMAIN proxies :
                  contains(GetFatAABB(Tree', h), aabb)
       /\ \A h \in DOMAIN proxies, aabb \in Tights, displacement \in Displacements :
            (/\ last'.op = "MoveProxy"
             /\ last'.ret
             /\ MoveProxyStep(h, aabb, displacement)) =>
              contains(GetFatAABB(Tree', h), aabb)]_vars

\* C9 witness: MoveProxy has returned true for a box the stored one did not
\* contain.
FatContainsTightWitness ==
    /\ last.op = "MoveProxy"
    /\ last.ret
    /\ ~last.inside

\* C10: MoveProxy re-inserts (and returns true) only if the stored box does
\* not contain the new one; whenever it does, MoveProxy returns false at
\* once without any tree update.
MoveReinsertsOnlyOutside ==
    [][\A h \in DOMAIN proxies, aabb \in Tights, displacement \in Displacements :
         (last'.op = "MoveProxy" /\ MoveProxyStep(h, aabb, displacement)) =>
           (contains(GetFatAABB(Tree, h), aabb) => (~last'.ret /\ TreeUnchanged))]_vars

\* C11: in one call of Query, once QueryCallback has returned false the
\* callback is not invoked again: an invocation that returned false is the
\* last of the call, whatever leaves were still on the stack.
QueryStopsAtFalse ==
    last.op = "Query" =>
        \A k \in DOMAIN last.calls :
            ~last.calls[k].proceed => k = Len(last.calls)

\* C11 witness: the callback has stopped a Query at its first invocation
\* while a second leaf overlapping the queried box was still to be walked.
QueryStopsAtFalseWitness ==
    /\ last.op = "Query"
    /\ Len(last.calls) = 1
    /\ ~last.calls[1].proceed
    /\ Len(Query(Tree, last.aabb)) = 2

\* C12: in one call of RayCast the value RayCastCallback returns controls
\* the walk.  After a return of 0 the callback is not invoked again.  After
\* a negative return the next invocation gets the same maxFraction and its
\* leaf was tested against the same segment box.  After a positive return
\* v the next invocation gets maxFraction = v and its leaf was tested
\* against the bounding box of p1 and p1 + v * (p2 - p1).  Every subInput
\* carries the p1 and p2 of the input.
RayCallbackControlsWalk ==
    last.op = "RayCast" =>
        LET calls == last.calls
            p1 == last.input.p1
            p2 == last.input.p2
            BoxTo(t) == Rectf(Min(p1.x, t.x), Min(p1.y, t.y),
                              Max(p1.x, t.x), Max(p1.y, t.y))
        IN  \A k \in DOMAIN calls :
              /\ calls[k].subInput.p1 = p1
              /\ calls[k].subInput.p2 = p2
              /\ calls[k].value = 0 => k = Len(calls)
              /\ (k < Len(calls) /\ calls[k].value < 0) =>
                   /\ calls[k + 1].subInput.maxFraction = calls[k].subInput.maxFraction
                   /\ calls[k + 1].segmentAABB = calls[k].segmentAABB
              /\ (k < Len(calls) /\ calls[k].value > 0) =>
                   /\ calls[k + 1].subInput.maxFraction = calls[k].value
                   /\ calls[k + 1].segmentAABB = BoxTo(PointAt(p1, p2, calls[k].value))

\* C12 witness: a RayCast has invoked its callback twice, the first
\* invocation having returned a fraction below the input's maxFraction.
RayCallbackControlsWalkWitness ==
    /\ last.op = "RayCast"
    /\ Len(last.calls) = 2
    /\ last.calls[1].value > 0
    /\ last.calls[1].value < last.input.maxFraction

\* C13 as stated: across one call of RayCast the maxFraction values passed
\* to the callback never increase, whatever the callback returns.
RayFractionsNonIncreasing ==
    last.op = "RayCast" =>
        \A k \in 1 .. Len(last.calls) - 1 :
            last.calls[k + 1].subInput.maxFraction <= last.calls[k].subInput.maxFraction

\* C13 amended: across one call of RayCast in which every positive value the
\* callback returned was at most the maxFraction it had been passed, the
\* maxFraction values passed to the callback never increase.
RayFractionsNonIncreasingIfClipped ==
    last.op = "RayCast" =>
        ((\A k \in DOMAIN last.calls :
             last.calls[k].value > 0 =>
               last.calls[k].value <= last.calls[k].subInput.maxFraction)
         => \A k \in 1 .. Len(last.calls) - 1 :
              last.calls[k + 1].subInput.maxFraction
                <= last.calls[k].subInput.maxFraction)

\* C13 witness: the second invocation of a RayCast has been passed a
\* smaller maxFraction than the first.
RayFractionsNonIncreasingWitness ==
    /\ last.op = "RayCast"
    /\ Len(last.calls) = 2
    /\ last.calls[2].subInput.maxFraction < last.calls[1].subInput.maxFraction

\* C14: RebuildBottomUp, whatever the number of proxies, leaves the set of
\* allocated leaves as it was and each leaf's box, user data and moved flag
\* unchanged; the internal nodes it allocates are as many as it freed, and
\* when it returns every leaf is met by descending from m_root.
RebuildPreservesLeaves ==
    [][last'.op = "RebuildBottomUp" =>
         /\ AllocatedLeaves(Tree') = AllocatedLeaves(Tree)
         /\ \A h \in AllocatedLeaves(Tree) :
              /\ m_nodes'[h].aabb = m_nodes[h].aabb
              /\ m_nodes'[h].userData = m_nodes[h].userData
              /\ m_nodes'[h].moved = m_nodes[h].moved
         /\ Cardinality(AllocatedInternal(Tree')) = Cardinality(AllocatedInternal(Tree))
         /\ AllocatedLeaves(Tree') \subseteq Subtree(Tree', m_root', DepthLimit(Tree'))]_vars

\* C14 witness: RebuildBottomUp has returned on a tree of four proxies, one
\* of them with its moved flag cleared.
RebuildPreservesLeavesWitness ==
    /\ last.op = "RebuildBottomUp"
    /\ Cardinality(DOMAIN proxies) = 4
    /\ \E h \in DOMAIN proxies : ~WasMoved(Tree, h)

\* C15 as stated: ShiftOrigin(v) changes only the boxes, translates the box
\* of every allocated node by -v, and ShiftOrigin(-v) after it restores
\* every stored box exactly, for any v.
ShiftOriginRoundTrip ==
    [][\A v \in FarOrigins :
         (last'.op = "ShiftOrigin" /\ ShiftOriginStep(v)) =>
           /\ UNCHANGED <<m_root, m_nodeCount, m_nodeCapacity, m_freeList,
                          m_insertionCount>>
           /\ \A i \in 0 .. m_nodeCapacity - 1 :
                /\ m_nodes'[i] = [m_nodes[i] EXCEPT !.aabb = m_nodes'[i].aabb]
                /\ i \in Allocated(Tree) =>
                     m_nodes'[i].aabb = Translated(m_nodes[i].aabb, v)
                /\ ShiftOrigin(Tree', Vector(0 - v.x, 0 - v.y)).nodes[i].aabb
                     = m_nodes[i].aabb]_vars

\* C15 amended: ShiftOrigin(v) changes only the boxes; when no stored
\* coordinate minus v needs rounding, it translates the box of every
\* allocated node by -v and ShiftOrigin(-v) after it restores every stored
\* box exactly.
ShiftOriginRoundTripIfExact ==
    [][\A v \in FarOrigins :
         (last'.op = "ShiftOrigin" /\ ShiftOriginStep(v)) =>
           /\ UNCHANGED <<m_root, m_nodeCount, m_nodeCapacity, m_freeList,
                          m_insertionCount>>
           /\ \A i \in 0 .. m_nodeCapacity - 1 :
                m_nodes'[i] = [m_nodes[i] EXCEPT !.aabb = m_nodes'[i].aabb]
           /\ (\A i \in 0 .. m_nodeCapacity - 1 :
                 move(m_nodes[i].aabb, Vector(0 - v.x, 0 - v.y))
                   = Translated(m_nodes[i].aabb, v))
              => \A i \in 0 .. m_nodeCapacity - 1 :
                   /\ i \in Allocated(Tree) =>
                        m_nodes'[i].aabb = Translated(m_nodes[i].aabb, v)
                   /\ ShiftOrigin(Tree', Vector(0 - v.x, 0 - v.y)).nodes[i].aabb
                        = m_nodes[i].aabb]_vars

\* C15 witness: ShiftOrigin has brought the three boxes of the deeper tree
\* back from beyond 2^FloatDigits to small coordinates, which needs no
\* rounding.
ShiftOriginRoundTripWitness ==
    /\ last.op = "ShiftOrigin"
    /\ Cardinality(DOMAIN proxies) = 3
    /\ CoordsWithin(Tree, 2 ^ 5)

\* C16: the moved flag of a live proxy h is true exactly when, since the
\* last ClearMoved(h), h was created or a MoveProxy(h) returned true.  Step
\* by step: a proxy is created with the flag set; ClearMoved(h) clears the
\* flag of h; a MoveProxy(h) that returns true sets it; and every other
\* call (MoveProxy returning false, calls on other proxies, ClearMoved of
\* another proxy, RebuildBottomUp, ShiftOrigin, Query, RayCast) leaves the
\* flag of h as it was.
MovedFlagFollowsCalls ==
    [][/\ \A h \in DOMAIN proxies' \ DOMAIN proxies : WasMoved(Tree', h)
       /\ \A h \in DOMAIN proxies \cap DOMAIN proxies' :
            WasMoved(Tree', h) =
              IF last'.op = "ClearMoved" /\ last'.id = h THEN FALSE
              ELSE IF last'.op = "MoveProxy" /\ last'.id = h /\ last'.ret THEN TRUE
              ELSE WasMoved(Tree, h)]_vars

\* C16 witness: a Query or a RayCast has run on a tree that holds a proxy
\* whose flag was cleared and a proxy whose flag is set.
MovedFlagFollowsCallsWitness ==
    /\ last.op \in {"Query", "RayCast"}
    /\ \E h \in DOMAIN proxies : ~WasMoved(Tree, h)
    /\ \E h \in DOMAIN proxies : WasMoved(Tree, h)

\* C17 as stated: on the row, a callback that returns 0.3 at its first
\* invocation in a RayCast along the whole row is not invoked a second
\* time in that call.
RowRayStopsAfterFirst ==
    (/\ last.op = "RayCast"
     /\ last.input = RowRay
     /\ last.calls # << >>
     /\ last.calls[1].value = 3)
    => Len(last.calls) = 1

\* C17 amended: on the row, a RayCast along the whole row invokes its
\* callback first for the last box of the row; when that invocation
\* returns 0.3 the callback is invoked a second time in that call, for the
\* second box of the row, with maxFraction 0.3.
RowRayNarrowsAfterFirst ==
    (/\ last.op = "RayCast"
     /\ last.input = RowRay
     /\ last.calls # << >>
     /\ last.calls[1].value = 3)
    => /\ Len(last.calls) >= 2
       /\ GetFatAABB(Tree, last.calls[1].id) = FatAABB(RowTights[3])
       /\ GetFatAABB(Tree, last.calls[2].id) = FatAABB(RowTights[2])
       /\ last.calls[2].subInput.maxFraction = 3

\* C17 witness: the callback of a RayCast along the whole row has returned
\* 0.3 at its first invocation and has been invoked for all three boxes.
RowRayNarrowsAfterFirstWitness ==
    /\ last.op = "RayCast"
    /\ last.input = RowRay
    /\ Len(last.calls) = 3
    /\ last.calls[1].value = 3

\* C18: once the 32 boxes of the stacked column have been created in order
\* on a new tree, GetMaxBalance() <= 1 and GetHeight() >= 5.
ColumnBalanced ==
    (m_insertionCount = 32 /\ Cardinality(DOMAIN proxies) = 32) =>
        /\ GetMaxBalance(Tree) <= 1
        /\ GetHeight(Tree) >= 5

\* C18 witness: the 32 proxies of the column are held, in a pool that has
\* grown to 64 nodes.
ColumnBalancedWitness ==
    /\ m_insertionCount = 32
    /\ Cardinality(DOMAIN proxies) = 32
    /\ m_nodeCapacity = 4 * InitialCapacity
    /\ \A i \in 1 .. 32 :
         \E h \in DOMAIN proxies : GetFatAABB(Tree, h) = FatAABB(ColumnTights[i])

\* C19: MoveProxy(h, aabb, d) returns true whenever the stored box does not
\* contain aabb, or contains it while the huge box does not contain the
\* stored box.  Then h is still the client's handle with the same user
\* data, is a leaf met by descending from m_root, has its moved flag set,
\* and its stored box is aabb grown by b2_aabbExtension and extended by
\* b2_aabbMultiplier * d: on the left or top for a negative component, on
\* the right or bottom otherwise.
MoveOutsideReinserts ==
    [][\A h \in DOMAIN proxies, aabb \in Tights, displacement \in Displacements :
         (/\ last'.op = "MoveProxy"
          /\ last'.id = h
          /\ \/ ~contains(GetFatAABB(Tree, h), aabb)
             \/ ~contains(HugeAABB(aabb, displacement), GetFatAABB(Tree, h))
          /\ MoveProxyStep(h, aabb, displacement))
         => /\ last'.ret
            /\ h \in DOMAIN proxies'
            /\ GetUserData(Tree', h) = GetUserData(Tree, h)
            /\ h \in AllocatedLeaves(Tree')
            /\ h \in Subtree(Tree', m_root', DepthLimit(Tree'))
            /\ WasMoved(Tree', h)
            /\ GetFatAABB(Tree', h) =
                 LET dx == b2_aabbMultiplier * displacement.x
                     dy == b2_aabbMultiplier * displacement.y
                 IN  Rectf(aabb.left - b2_aabbExtension + Min(dx, 0),
                           aabb.top - b2_aabbExtension + Min(dy, 0),
                           aabb.right + b2_aabbExtension + Max(dx, 0),
                           aabb.bottom + b2_aabbExtension + Max(dy, 0))]_vars

\* C19 witness: MoveProxy has returned true for a box the stored one
\* contained, while the moved flag of another proxy is cleared.
MoveOutsideReinsertsWitness ==
    /\ last.op = "MoveProxy"
    /\ last.ret
    /\ last.inside
    /\ WasMoved(Tree, last.id)
    /\ \E h \in DOMAIN proxies : ~WasMoved(Tree, h)

\* C20 as stated: in the descent of InsertLeaf, at each internal candidate
\* the descent stops iff cost < cost1 and cost < cost2; otherwise it goes
\* into the child of smaller cost, and into child1 when cost1 = cost2.
DescentTieToChild1 ==
    [][\A aabb \in Tights :
         (last'.op = "CreateProxy" /\ m_root # b2_nullNode /\ CreateProxyStep(aabb)) =>
           LET path == DescentPath(Tree, FatAABB(aabb), m_root) IN
           \A k \in DOMAIN path :
             ~IsLeaf(m_nodes[path[k]]) =>
               LET c == DescentCosts(Tree, FatAABB(aabb), path[k]) IN
               /\ (k = Len(path)) <=> (c.cost < c.cost1 /\ c.cost < c.cost2)
               /\ k < Len(path) =>
                    path[k + 1] = IF c.cost1 <= c.cost2 THEN m_nodes[path[k]].child1
                                  ELSE m_nodes[path[k]].child2]_vars

\* C20 amended: in the descent of InsertLeaf, at each internal candidate the
\* descent stops iff cost < cost1 and cost < cost2; otherwise it goes into
\* child1 when cost1 < cost2 and into child2 when cost2 <= cost1.
DescentTieToChild2 ==
    [][\A aabb \in Tights :
         (last'.op = "CreateProxy" /\ m_root # b2_nullNode /\ CreateProxyStep(aabb)) =>
           LET path == DescentPath(Tree, FatAABB(aabb), m_root) IN
           \A k \in DOMAIN path :
             ~IsLeaf(m_nodes[path[k]]) =>
               LET c == DescentCosts(Tree, FatAABB(aabb), path[k]) IN
               /\ (k = Len(path)) <=> (c.cost < c.cost1 /\ c.cost < c.cost2)
               /\ k < Len(path) =>
                    path[k + 1] = IF c.cost1 < c.cost2 THEN m_nodes[path[k]].child1
                                  ELSE m_nodes[path[k]].child2]_vars

\* C20 witness: a third proxy has been created with the box of the two
\* proxies already held, where the costs of the root's children are equal:
\* it has become the sibling of the root's child2.
DescentTieToChild2Witness ==
    /\ last.op = "CreateProxy"
    /\ Cardinality(DOMAIN proxies) = 3
    /\ \A h \in DOMAIN proxies : GetFatAABB(Tree, h) = FatAABB(Rectf(0, 0, 2, 2))
    /\ IsLeaf(m_nodes[m_nodes[m_root].child1])
    /\ ~IsLeaf(m_nodes[m_nodes[m_root].child2])

\* C21: CreateProxy on a tree without proxies makes the new leaf the root,
\* with parent = sentinel, GetHeight() = 0 and GetMaxBalance() = 0, and
\* allocates no internal node.  CreateProxy on a tree of exactly one proxy s
\* allocates exactly one internal node, which becomes the root with
\* child1 = s, child2 = the new leaf, height 1 and the union of the two
\* stored boxes as its box.
CreateOnEmptyOrSingle ==
    [][last'.op = "CreateProxy" =>
         \A h \in DOMAIN proxies' \ DOMAIN proxies :
           /\ DOMAIN proxies = {} =>
                /\ m_root' = h
                /\ m_nodes'[h].parent = b2_nullNode
                /\ GetHeight(Tree') = 0
                /\ GetMaxBalance(Tree') = 0
                /\ m_nodeCount' = m_nodeCount + 1
                /\ AllocatedInternal(Tree') = {}
           /\ \A s \in DOMAIN proxies :
                DOMAIN proxies = {s} =>
                  /\ m_nodeCount' = m_nodeCount + 2
                  /\ Allocated(Tree') \ Allocated(Tree) = {h, m_root'}
                  /\ m_root' # h
                  /\ m_nodes'[m_root'].parent = b2_nullNode
                  /\ m_nodes'[m_root'].child1 = s
                  /\ m_nodes'[m_root'].child2 = h
                  /\ m_nodes'[m_root'].height = 1
                  /\ GetHeight(Tree') = 1
                  /\ m_nodes'[m_root'].aabb =
                       combine(GetFatAABB(Tree', s), GetFatAABB(Tree', h))]_vars

QueryReaderSeesAllocated ==
    (/\ last.op = "Query"
     /\ \A k \in DOMAIN last.calls : last.calls[k].act.do # "destroy")
    => /\ \A k \in DOMAIN last.popped : last.popped[k].allocated
       /\ \A k \in DOMAIN last.calls : last.calls[k].id \in DOMAIN proxies

\* C24, the unsafe execution: a QueryCallback has called DestroyProxy on
\* another proxy the client held, and the same walk has afterwards popped a
\* node that was no longer allocated and has invoked the callback with the
\* destroyed handle.
QueryDestroyerSeesFreed ==
    /\ last.op = "Query"
    /\ \E k \in DOMAIN last.calls :
         /\ last.calls[k].act.do = "destroy"
         /\ \E j \in DOMAIN last.calls :
              j > k /\ last.calls[j].id = last.calls[k].act.victim
    /\ \E k \in DOMAIN last.popped : ~last.popped[k].allocated

\* C25: after any sequence of CreateProxy, DestroyProxy, MoveProxy and
\* RebuildBottomUp calls, m_nodeCount is 0 when the client holds no proxy
\* and 2 * L - 1 when it holds L >= 1 proxies: L allocated leaves and L - 1
\* allocated internal nodes.  DestroyProxy on a tree of at least two proxies
\* frees exactly two slots, the leaf and its parent, and MoveProxy leaves
\* m_nodeCount as it was.
NodeCountFollowsProxies ==
    /\ m_nodeCount = IF DOMAIN proxies = {} THEN 0
                     ELSE 2 * Cardinality(DOMAIN proxies) - 1
    /\ Cardinality(Allocated(Tree)) = m_nodeCount
    /\ Cardinality(AllocatedLeaves(Tree)) = Cardinality(DOMAIN proxies)
    /\ [][/\ m_nodeCount' = IF DOMAIN proxies' = {} THEN 0
                            ELSE 2 * Cardinality(DOMAIN proxies') - 1
          /\ Cardinality(Allocated(Tree')) = m_nodeCount'
          /\ Cardinality(AllocatedLeaves(Tree')) = Cardinality(DOMAIN proxies')
          /\ (last'.op = "DestroyProxy" /\ Cardinality(DOMAIN proxies) >= 2) =>
               \A h \in DOMAIN proxies \ DOMAIN proxies' :
                 /\ m_nodeCount' = m_nodeCount - 2
                 /\ Allocated(Tree) \ Allocated(Tree') = {h, m_nodes[h].parent}
          /\ last'.op = "MoveProxy" => m_nodeCount' = m_nodeCount]_vars

\* C26: after any sequence of public mutations the nodes reachable from
\* m_root through the child links are exactly the allocated slots (height
\* >= 0), the child links form a tree (no cycle, no node reached along two
\* different paths, child1 # child2 at every internal node), and no freed
\* slot is reachable from m_root.
ReachableIsAllocated ==
    /\ Subtree(Tree, m_root, m_nodeCapacity + 1) = Allocated(Tree)
    /\ Visits(Tree, m_root, m_nodeCapacity + 1)
         = Cardinality(Subtree(Tree, m_root, m_nodeCapacity + 1))
    /\ \A i \in AllocatedInternal(Tree) : m_nodes[i].child1 # m_nodes[i].child2
    /\ \A i \in Subtree(Tree, m_root, m_nodeCapacity + 1) :
         m_nodes[i].height >= 0

\* C27: RebuildBottomUp() called on a tree without a proxy leaves the tree
\* empty: m_root remains the sentinel, m_nodeCount stays 0 and the free list
\* is unchanged; called on a tree of exactly one leaf it leaves that leaf as
\* m_root.
RebuildKeepsSmallTree ==
    [][last'.op = "RebuildBottomUp" =>
         /\ DOMAIN proxies = {} =>
              /\ m_root' = b2_nullNode
              /\ m_nodeCount' = 0
              /\ m_freeList' = m_freeList
              /\ FreeList(Tree') = FreeList(Tree)
         /\ Cardinality(DOMAIN proxies) = 1 =>
              /\ m_root' \in DOMAIN proxies
              /\ m_nodeCount' = 1
              /\ m_nodes'[m_root'].parent = b2_nullNode]_vars

=============================================================================
